---- MODULE Spec2Model ----
(***************************************************************************)
(* Model of docs/conf.py of krowkee: the Sphinx configuration module that  *)
(* renders Doxyfile from Doxyfile.in, runs doxygen when READTHEDOCS is     *)
(* "True", and publishes the breathe settings.                             *)
(*                                                                         *)
(* Text (file contents, directory arguments) is a sequence of one-         *)
(* character strings, so that str.replace is computed character by         *)
(* character.  An optional value (a file that may be absent, an            *)
(* environment variable that may be unset) is a sequence of length 0 or 1. *)
(***************************************************************************)
EXTENDS Integers, Sequences, FiniteSets, TLC

\* ------------------------------------------------------------------ bounds
\* A template is the concatenation of at most MaxPieces pieces of Pieces.
MaxPieces == 3
\* A caller of configureDoxyfile calls it at most MaxCalls times.
MaxCalls == 2

\* ---------------------------------------------------------------- literals
\* "@DOXYGEN_INPUT_DIR@", the old string of the first replace (line 14).
TokIn ==
    <<"@","D","O","X","Y","G","E","N","_","I","N","P","U","T","_","D","I","R","@">>

\* "@DOXYGEN_OUTPUT_DIR@", the old string of the second replace (line 15).
TokOut ==
    <<"@","D","O","X","Y","G","E","N","_","O","U","T","P","U","T","_","D","I","R","@">>

\* "../input" (line 26).
InputLiteral == <<".",".","/","i","n","p","u","t">>

\* "build" (line 27).
OutputLiteral == <<"b","u","i","l","d">>

\* "/xml" (line 30).
XmlSuffix == <<"/","x","m","l">>

\* The empty dict {} (line 24).
EmptyDict == [k \in {} |-> <<>>]

\* d[k] = v on a dict (line 30).
DictSet(d, k, v) ==
    [x \in (DOMAIN d) \cup {k} |-> IF x = k THEN v ELSE d[x]]

\* os.environ.get(key, default) (line 22): a string value v is <<v>>, None is <<>>.
EnvGet(e, key, default) == IF key \in DOMAIN e THEN <<e[key]>> ELSE default

\* The comparison of line 22 on an optional string, as written with a
\* different case folding (str.lower() on both sides).
GateIgnoreCase(v) == v \in {<<"True">>, <<"true">>, <<"TRUE">>}

\* ... == "True" (line 22): Python string equality, exact and case-sensitive.
Gate(v) == v = <<"True">>

\* ------------------------------------------------------------- str.replace
\* str.replace(old, new, 1): only the first occurrence.
RECURSIVE ReplaceFirst(_, _, _)
ReplaceFirst(s, old, new) ==
    IF Len(s) < Len(old) THEN s
    ELSE IF SubSeq(s, 1, Len(old)) = old
         THEN new \o SubSeq(s, Len(old) + 1, Len(s))
         ELSE <<Head(s)>> \o ReplaceFirst(Tail(s), old, new)

\* The scan of str.replace: left to right, each match replaced and the scan
\* resumed after it, so matches never overlap and inserted text is not
\* rescanned within one call.
RECURSIVE ReplaceScan(_, _, _)
ReplaceScan(s, old, new) ==
    IF Len(s) < Len(old) THEN s
    ELSE IF SubSeq(s, 1, Len(old)) = old
         THEN new \o ReplaceScan(SubSeq(s, Len(old) + 1, Len(s)), old, new)
         ELSE <<Head(s)>> \o ReplaceScan(Tail(s), old, new)

\* str.replace(old, new) for a non-empty old (lines 14 and 15).
Replace(s, old, new) == ReplaceScan(s, old, new)

\* ------------------------------------------------------------- file system
\* A write of data at offset 0 of a file holding content: what lies beyond
\* the data stays.
WriteAt0(content, data) ==
    data \o SubSeq(content, Len(data) + 1, Len(content))

\* The lengths a failed flush may have written before the error.
PartialLens(data) == { 0, Len(data) \div 2, Len(data) }

\* -------------------------------------------------------------- input sets
\* The pieces templates are built of: the two tokens, text without "@" (one
\* of them the inside of a token, which between two tokens reads as a third),
\* and fragments of tokens, which complete a token when text between them
\* goes or which make two tokens share their "@".
Pieces ==
    { TokIn, TokOut,
      <<"=">>,
      <<"D","O","X","Y","G","E","N","_","I","N","P","U","T","_","D","I","R">>,
      <<"@","D","O","X","Y","G","E","N","_","O","U","T">>,
      <<"P","U","T","_","D","I","R","@">>,
      Tail(TokOut) }

RECURSIVE Concat(_)
Concat(ps) == IF ps = <<>> THEN <<>> ELSE Head(ps) \o Concat(Tail(ps))

Templates == { Concat(ps) : ps \in UNION { [1..n -> Pieces] : n \in 0..MaxPieces } }

\* Directory arguments a caller may pass: unvalidated strings.
DirValues == { <<>>, OutputLiteral, TokIn, TokOut }

\* Contents Doxyfile may hold before the load: absent, short, long.
PriorDoxyfiles ==
    { <<>>, << <<"o","l","d">> >>, << TokOut \o TokOut \o TokOut \o TokOut >> }

\* Environments: READTHEDOCS unset, or set to a string.
Environs ==
    { EmptyDict } \cup
    { [k \in {"READTHEDOCS"} |-> v] : v \in {"", "true", "TRUE", "1", "True"} }

\* Exit statuses subprocess.call may return for the shell running doxygen:
\* success, failure, command not found, killed by a signal.
ExitStatuses == { 0, 1, 127, -11 }

VARIABLES
    environ,                 \* os.environ
    template,                \* Doxyfile.in on disk: <<>> or <<content>>
    doxyfile,                \* Doxyfile on disk: <<>> or <<content>>
    doxyfile0,               \* Doxyfile as it was before the run began
    template_fh,             \* the file object of line 11: "none", "open", "closed"
    output_fh,               \* the file object of line 17: "none", "open", "closed"
    output_buf,              \* text written to the line-17 file object, not yet flushed
    input_dir,               \* input_dir (lines 10 and 26)
    output_dir,              \* output_dir (lines 10 and 27)
    filedata,                \* filedata (lines 12, 14, 15)
    read_the_docs_build,     \* line 22
    breathe_projects,        \* line 24
    settings,                \* the names bound by lines 36 to 58
    doxygen,                 \* the child process: "not_started", "running", "terminated"
    returncode,              \* the child's exit status: <<>> until it terminates
    stdout,                  \* lines printed
    calls,                   \* invocations of configureDoxyfile so far
    ret,                     \* where configureDoxyfile returns to
    exc,                     \* the uncaught exception and the line that raised it
    pc                       \* the statement about to run

vars ==
    << environ, template, doxyfile, doxyfile0, template_fh, output_fh, output_buf,
       input_dir, output_dir, filedata, read_the_docs_build, breathe_projects,
       settings, doxygen, returncode, stdout, calls, ret, exc, pc >>

fsVars == << template, doxyfile >>
handleVars == << template_fh, output_fh, output_buf >>
moduleVars ==
    << read_the_docs_build, breathe_projects, settings, stdout >>
procVars == << doxygen, returncode >>
fixedVars == << environ, doxyfile0 >>

\* The text configureDoxyfile(i, o) makes of the text t (lines 14 and 15).
Rendered(t, i, o) == Replace(Replace(t, TokIn, i), TokOut, o)

\* ------------------------------------------------------ configureDoxyfile
\* No exception is in flight.
NoException == [type |-> "none", line |-> 0]

\* The statement of the given line raises an exception of type e, which
\* nothing catches: control leaves the module.
Raise(e, line) == exc' = [type |-> e, line |-> line] /\ pc' = "aborted"

\* Line 11 with the file opened for writing ("w"), which truncates it.
OpenTemplateForWrite ==
    /\ pc = "L11"
    /\ template' = << <<>> >>
    /\ template_fh' = "open"
    /\ pc' = "L12"
    /\ UNCHANGED << doxyfile, output_fh, output_buf, input_dir, output_dir, filedata,
                    moduleVars, procVars, fixedVars, calls, ret, exc >>

\* Line 11 inside a try block whose handler notes the error and returns.
OpenTemplateCatch ==
    /\ pc = "L11"
    /\ \/ /\ template = <<>>
          /\ exc' = [type |-> "FileNotFoundError", line |-> 11]
          /\ pc' = ret
          /\ UNCHANGED template_fh
       \/ /\ template # <<>>
          /\ template_fh' = "open"
          /\ pc' = "L12"
          /\ UNCHANGED exc
    /\ UNCHANGED << fsVars, output_fh, output_buf, input_dir, output_dir, filedata,
                    moduleVars, procVars, fixedVars, calls, ret >>

\* Line 11: open("Doxyfile.in", "r").  A missing file raises
\* FileNotFoundError; an existing one opens, or is refused by the system.
OpenTemplate ==
    /\ pc = "L11"
    /\ \/ /\ template = <<>>
          /\ Raise("FileNotFoundError", 11)
          /\ UNCHANGED template_fh
       \/ /\ template # <<>>
          /\ Raise("PermissionError", 11)
          /\ UNCHANGED template_fh
       \/ /\ template # <<>>
          /\ template_fh' = "open"
          /\ pc' = "L12"
          /\ UNCHANGED exc
    /\ UNCHANGED << fsVars, output_fh, output_buf, input_dir, output_dir, filedata,
                    moduleVars, procVars, fixedVars, calls, ret >>

\* Line 12: filedata = file.read().
ReadTemplate ==
    /\ pc = "L12"
    /\ filedata' = template[1]
    /\ pc' = "L12_exit"
    /\ UNCHANGED << fsVars, handleVars, input_dir, output_dir, moduleVars, procVars,
                    fixedVars, calls, ret, exc >>

\* The end of the with block of lines 11 and 12: the file object is closed.
CloseTemplate ==
    /\ pc = "L12_exit"
    /\ template_fh' = "closed"
    /\ pc' = "L14"
    /\ UNCHANGED << fsVars, output_fh, output_buf, input_dir, output_dir, filedata,
                    moduleVars, procVars, fixedVars, calls, ret, exc >>

\* Line 14: filedata = filedata.replace("@DOXYGEN_INPUT_DIR@", input_dir).
ReplaceInput ==
    /\ pc = "L14"
    /\ filedata' = Replace(filedata, TokIn, input_dir)
    /\ pc' = "L15"
    /\ UNCHANGED << fsVars, handleVars, input_dir, output_dir, moduleVars, procVars,
                    fixedVars, calls, ret, exc >>

\* Line 15 with the wrong argument: the output token replaced by input_dir.
ReplaceOutputWithInput ==
    /\ pc = "L15"
    /\ filedata' = Replace(filedata, TokOut, input_dir)
    /\ pc' = "L17"
    /\ UNCHANGED << fsVars, handleVars, input_dir, output_dir, moduleVars, procVars,
                    fixedVars, calls, ret, exc >>

\* Line 15: filedata = filedata.replace("@DOXYGEN_OUTPUT_DIR@", output_dir).
ReplaceOutput ==
    /\ pc = "L15"
    /\ filedata' = Replace(filedata, TokOut, output_dir)
    /\ pc' = "L17"
    /\ UNCHANGED << fsVars, handleVars, input_dir, output_dir, moduleVars, procVars,
                    fixedVars, calls, ret, exc >>

\* Line 17 with the file opened for update ("r+"/"a"-like: no truncation).
OpenOutputKeep ==
    /\ pc = "L17"
    /\ doxyfile' = IF doxyfile = <<>> THEN << <<>> >> ELSE doxyfile
    /\ output_fh' = "open"
    /\ output_buf' = <<>>
    /\ pc' = "L18"
    /\ UNCHANGED << template, template_fh, input_dir, output_dir, filedata,
                    moduleVars, procVars, fixedVars, calls, ret, exc >>

\* Line 17 inside a try block whose handler notes the error and returns.
OpenOutputCatch ==
    /\ pc = "L17"
    /\ \/ /\ doxyfile' = << <<>> >>
          /\ output_fh' = "open"
          /\ output_buf' = <<>>
          /\ pc' = "L18"
          /\ UNCHANGED exc
       \/ /\ exc' = [type |-> "PermissionError", line |-> 17]
          /\ pc' = ret
          /\ UNCHANGED << doxyfile, output_fh, output_buf >>
    /\ UNCHANGED << template, template_fh, input_dir, output_dir, filedata,
                    moduleVars, procVars, fixedVars, calls, ret >>

\* Line 17: open("Doxyfile", "w").  On success the file exists and is empty;
\* when the system refuses, nothing on disk changes.
OpenOutput ==
    /\ pc = "L17"
    /\ \/ /\ doxyfile' = << <<>> >>
          /\ output_fh' = "open"
          /\ output_buf' = <<>>
          /\ pc' = "L18"
          /\ UNCHANGED exc
       \/ /\ Raise("PermissionError", 17)
          /\ UNCHANGED << doxyfile, output_fh, output_buf >>
    /\ UNCHANGED << template, template_fh, input_dir, output_dir, filedata,
                    moduleVars, procVars, fixedVars, calls, ret >>

\* Line 18: file.write(filedata), which goes to the file object's buffer.
WriteOutput ==
    /\ pc = "L18"
    /\ output_buf' = output_buf \o filedata
    /\ pc' = "L18_exit"
    /\ UNCHANGED << fsVars, template_fh, output_fh, input_dir, output_dir, filedata,
                    moduleVars, procVars, fixedVars, calls, ret, exc >>

\* The end of the with block with the file object left open and unflushed.
LeaveOutputOpen ==
    /\ pc = "L18_exit"
    /\ pc' = ret
    /\ UNCHANGED << fsVars, handleVars, input_dir, output_dir, filedata,
                    moduleVars, procVars, fixedVars, calls, ret, exc >>

\* The end of the with block of lines 17 and 18: the buffer is flushed and the
\* file object closed, and the function returns.  A flush that fails has
\* written some prefix of the buffer; the file object is closed all the same.
CloseOutput ==
    /\ pc = "L18_exit"
    /\ output_fh' = "closed"
    /\ output_buf' = <<>>
    /\ \/ /\ doxyfile' = << WriteAt0(doxyfile[1], output_buf) >>
          /\ pc' = ret
          /\ UNCHANGED exc
       \/ /\ \E k \in PartialLens(output_buf) :
                doxyfile' = << WriteAt0(doxyfile[1], SubSeq(output_buf, 1, k)) >>
          /\ Raise("OSError", 18)
    /\ UNCHANGED << template, template_fh, input_dir, output_dir, filedata,
                    moduleVars, procVars, fixedVars, calls, ret >>

configureDoxyfile ==
    \/ OpenTemplate
    \/ ReadTemplate
    \/ CloseTemplate
    \/ ReplaceInput
    \/ ReplaceOutput
    \/ OpenOutput
    \/ WriteOutput
    \/ CloseOutput

\* ------------------------------------------------------------ module body
\* Line 22: read_the_docs_build = os.environ.get("READTHEDOCS", None) == "True".
ReadGate ==
    /\ pc = "L22"
    /\ read_the_docs_build' = Gate(EnvGet(environ, "READTHEDOCS", <<>>))
    /\ pc' = "L24"
    /\ UNCHANGED << fsVars, handleVars, input_dir, output_dir, filedata,
                    breathe_projects, settings, stdout, procVars, fixedVars,
                    calls, ret, exc >>

\* Line 24: breathe_projects = {}.
InitProjects ==
    /\ pc = "L24"
    /\ breathe_projects' = EmptyDict
    /\ pc' = "L25"
    /\ UNCHANGED << fsVars, handleVars, input_dir, output_dir, filedata,
                    read_the_docs_build, settings, stdout, procVars, fixedVars,
                    calls, ret, exc >>

\* Line 25 without its test: the build runs whatever the flag.
BranchAlways ==
    /\ pc = "L25"
    /\ pc' = "L26"
    /\ UNCHANGED << fsVars, handleVars, input_dir, output_dir, filedata,
                    moduleVars, procVars, fixedVars, calls, ret, exc >>

\* Line 25: if read_the_docs_build.
Branch ==
    /\ pc = "L25"
    /\ pc' = IF read_the_docs_build THEN "L26" ELSE "L36"
    /\ UNCHANGED << fsVars, handleVars, input_dir, output_dir, filedata,
                    moduleVars, procVars, fixedVars, calls, ret, exc >>

\* Line 26: input_dir = "../input".
SetInputDir ==
    /\ pc = "L26"
    /\ input_dir' = InputLiteral
    /\ pc' = "L27"
    /\ UNCHANGED << fsVars, handleVars, output_dir, filedata,
                    moduleVars, procVars, fixedVars, calls, ret, exc >>

\* Line 27: output_dir = "build".
SetOutputDir ==
    /\ pc = "L27"
    /\ output_dir' = OutputLiteral
    /\ pc' = "L28"
    /\ UNCHANGED << fsVars, handleVars, input_dir, filedata,
                    moduleVars, procVars, fixedVars, calls, ret, exc >>

\* Line 28: configureDoxyfile(input_dir, output_dir).
CallConfigure ==
    /\ pc = "L28"
    /\ calls' = calls + 1
    /\ ret' = "L29"
    /\ pc' = "L11"
    /\ UNCHANGED << fsVars, handleVars, input_dir, output_dir, filedata,
                    moduleVars, procVars, fixedVars, exc >>

\* Line 29: subprocess.call("doxygen", shell=True) starts the child.
SpawnDoxygen ==
    /\ pc = "L29"
    /\ doxygen' = "running"
    /\ pc' = "L29_wait"
    /\ UNCHANGED << fsVars, handleVars, input_dir, output_dir, filedata,
                    moduleVars, returncode, fixedVars, calls, ret, exc >>

\* The child ends, with any exit status.
DoxygenExit ==
    /\ doxygen = "running"
    /\ \E status \in ExitStatuses : returncode' = <<status>>
    /\ doxygen' = "terminated"
    /\ UNCHANGED << fsVars, handleVars, input_dir, output_dir, filedata,
                    moduleVars, fixedVars, calls, ret, exc, pc >>

\* Line 29: subprocess.call returns once the child has ended; the status it
\* returns is dropped.
WaitDoxygen ==
    /\ pc = "L29_wait"
    /\ doxygen = "terminated"
    /\ pc' = "L30"
    /\ UNCHANGED << fsVars, handleVars, input_dir, output_dir, filedata,
                    moduleVars, procVars, fixedVars, calls, ret, exc >>

\* Line 30 made conditional on the child's success.
RegisterOnSuccess ==
    /\ pc = "L30"
    /\ breathe_projects' =
          IF returncode = <<0>>
          THEN DictSet(breathe_projects, "krowkee", output_dir \o XmlSuffix)
          ELSE breathe_projects
    /\ pc' = "L31"
    /\ UNCHANGED << fsVars, handleVars, input_dir, output_dir, filedata,
                    read_the_docs_build, settings, stdout, procVars, fixedVars,
                    calls, ret, exc >>

\* Line 30: breathe_projects["krowkee"] = output_dir + "/xml".
Register ==
    /\ pc = "L30"
    /\ breathe_projects' = DictSet(breathe_projects, "krowkee", output_dir \o XmlSuffix)
    /\ pc' = "L31"
    /\ UNCHANGED << fsVars, handleVars, input_dir, output_dir, filedata,
                    read_the_docs_build, settings, stdout, procVars, fixedVars,
                    calls, ret, exc >>

\* Line 31: print("gets here").
PrintGetsHere ==
    /\ pc = "L31"
    /\ stdout' = Append(stdout, "gets here")
    /\ pc' = "L36"
    /\ UNCHANGED << fsVars, handleVars, input_dir, output_dir, filedata,
                    read_the_docs_build, breathe_projects, settings, procVars,
                    fixedVars, calls, ret, exc >>

\* Lines 36 to 58: the published settings.
PublishedSettings ==
    [ project |-> "krowkee",
      copyright |-> "2023, Benjamin W. Priest",
      author |-> "Benjamin W. Priest",
      release |-> "0.1",
      extensions |-> <<"breathe">>,
      templates_path |-> <<"_templates">>,
      exclude_patterns |-> <<"_build", "Thumbs.db", ".DS_Store">>,
      html_theme |-> "sphinx_rtd_theme",
      html_static_path |-> <<"_static">>,
      breathe_default_project |-> "krowkee",
      breathe_default_members |-> <<"members">> ]

\* Lines 36 to 58 run to the end of the module.
Publish ==
    /\ pc = "L36"
    /\ settings' = PublishedSettings
    /\ pc' = "done"
    /\ UNCHANGED << fsVars, handleVars, input_dir, output_dir, filedata,
                    read_the_docs_build, breathe_projects, stdout, procVars,
                    fixedVars, calls, ret, exc >>

\* --------------------------------------------------------- specifications
\* The load of the module by the documentation builder.  The names of the
\* module are unbound at the start; read_the_docs_build and breathe_projects
\* hold the values FALSE and {} until lines 22 and 24 bind them.
Init ==
    /\ environ \in Environs
    /\ template \in { <<>> } \cup { <<t>> : t \in Templates }
    /\ doxyfile \in PriorDoxyfiles
    /\ doxyfile0 = doxyfile
    /\ template_fh = "none"
    /\ output_fh = "none"
    /\ output_buf = <<>>
    /\ input_dir = <<>>
    /\ output_dir = <<>>
    /\ filedata = <<>>
    /\ read_the_docs_build = FALSE
    /\ breathe_projects = EmptyDict
    /\ settings = EmptyDict
    /\ doxygen = "not_started"
    /\ returncode = <<>>
    /\ stdout = <<>>
    /\ calls = 0
    /\ ret = "none"
    /\ exc = NoException
    /\ pc = "L22"

Next ==
    \/ ReadGate
    \/ InitProjects
    \/ Branch
    \/ SetInputDir
    \/ SetOutputDir
    \/ CallConfigure
    \/ configureDoxyfile
    \/ SpawnDoxygen
    \/ DoxygenExit
    \/ WaitDoxygen
    \/ Register
    \/ PrintGetsHere
    \/ Publish

Spec == Init /\ [][Next]_vars

\* configureDoxyfile called by a caller with arguments of its own choice, up
\* to MaxCalls times with the same arguments.
CallerCalls ==
    /\ pc = "caller"
    /\ calls < MaxCalls
    /\ calls' = calls + 1
    /\ ret' = "caller"
    /\ pc' = "L11"
    /\ UNCHANGED << fsVars, handleVars, input_dir, output_dir, filedata,
                    moduleVars, procVars, fixedVars, exc >>

RenderInit ==
    /\ environ = EmptyDict
    /\ template \in { <<>> } \cup { <<t>> : t \in Templates }
    /\ doxyfile \in PriorDoxyfiles
    /\ doxyfile0 = doxyfile
    /\ template_fh = "none"
    /\ output_fh = "none"
    /\ output_buf = <<>>
    /\ input_dir \in DirValues
    /\ output_dir \in DirValues
    /\ filedata = <<>>
    /\ read_the_docs_build = FALSE
    /\ breathe_projects = EmptyDict
    /\ settings = EmptyDict
    /\ doxygen = "not_started"
    /\ returncode = <<>>
    /\ stdout = <<>>
    /\ calls = 0
    /\ ret = "none"
    /\ exc = NoException
    /\ pc = "caller"

RenderNext ==
    \/ CallerCalls
    \/ configureDoxyfile

RenderSpec == RenderInit /\ [][RenderNext]_vars

\* --------------------------------------------- properties of the load
\* READTHEDOCS is set to exactly "True".
FlagIsTrue ==
    "READTHEDOCS" \in DOMAIN environ /\ environ["READTHEDOCS"] = "True"

\* "build/xml".
BuildXml == <<"b","u","i","l","d","/","x","m","l">>

\* The statements before the first statement of configureDoxyfile.
BeforeRender == {"L22", "L24", "L25", "L26", "L27", "L28", "L11"}

\* s is a prefix of t.
IsPrefix(s, t) == Len(s) <= Len(t) /\ SubSeq(t, 1, Len(s)) = s

\* C1: whenever READTHEDOCS is anything but exactly "True" (unset, "",
\* "true", "TRUE", "1"), the load never calls configureDoxyfile, never opens
\* or changes Doxyfile, never starts doxygen, and breathe_projects is empty
\* throughout and at the end.
C1_GateOffDoesNothing ==
    ~FlagIsTrue =>
        /\ calls = 0
        /\ output_fh = "none"
        /\ doxyfile = doxyfile0
        /\ doxygen = "not_started"
        /\ breathe_projects = EmptyDict
        /\ exc = NoException

\* C1 witness: a load with READTHEDOCS set to lowercase "true" has finished.
C1_Witness ==
    /\ pc = "done"
    /\ "READTHEDOCS" \in DOMAIN environ
    /\ environ["READTHEDOCS"] = "true"

\* C2: with READTHEDOCS "True", once line 30 has run the registry is exactly
\* {"krowkee": "build/xml"}, whatever status doxygen ended with.
C2_RegistryWhateverStatus ==
    (FlagIsTrue /\ pc \in {"L31", "L36", "done"}) =>
        /\ breathe_projects = [k \in {"krowkee"} |-> BuildXml]
        /\ doxygen = "terminated"
        /\ returncode \in { <<st>> : st \in ExitStatuses }

\* C2 witness: the load finished after the shell reported that doxygen was
\* not found (status 127), and the entry is registered.
C2_Witness ==
    /\ pc = "done"
    /\ returncode = <<127>>
    /\ "krowkee" \in DOMAIN breathe_projects

\* C5: with READTHEDOCS "True", when Doxyfile.in is missing or cannot be
\* opened, the load goes no further than line 11 and ends there with the
\* uncaught error: Doxyfile is as it was and no file object for it exists,
\* doxygen is not started, the registry is empty and no setting is published.
C5_TemplateFailureAborts ==
    (FlagIsTrue /\ (template = <<>> \/ exc.line = 11)) =>
        /\ pc \in BeforeRender \cup {"aborted"}
        /\ pc = "aborted" => exc.type \in {"FileNotFoundError", "PermissionError"}
        /\ (pc = "aborted" /\ template = <<>>) => exc.type = "FileNotFoundError"
        /\ doxyfile = doxyfile0
        /\ output_fh = "none"
        /\ doxygen = "not_started"
        /\ breathe_projects = EmptyDict
        /\ settings = EmptyDict
        /\ calls <= 1

\* C5 witness: the load was aborted by the missing template while a Doxyfile
\* of an earlier run is on disk.
C5_Witness ==
    /\ pc = "aborted"
    /\ template = <<>>
    /\ exc.type = "FileNotFoundError"
    /\ doxyfile0 # <<>>

\* C6: with READTHEDOCS "True", when opening Doxyfile (line 17) or writing it
\* (lines 17-18) fails, the load ends there with the uncaught error after a
\* single attempt: doxygen is not started, the registry is empty, nothing is
\* published; Doxyfile is as it was when the open failed, and holds some
\* prefix of the rendered text when the write failed.
C6_OutputFailureAborts ==
    (exc.line \in {17, 18}) =>
        /\ FlagIsTrue
        /\ pc = "aborted"
        /\ calls = 1
        /\ output_fh # "open"
        /\ doxygen = "not_started"
        /\ breathe_projects = EmptyDict
        /\ settings = EmptyDict
        /\ exc.line = 17 => doxyfile = doxyfile0
        /\ exc.line = 18 => (doxyfile # <<>> /\ IsPrefix(doxyfile[1], filedata))

\* C6 witness: the write failed and left Doxyfile shorter than the rendered
\* text.
C6_Witness ==
    /\ exc.line = 18
    /\ pc = "aborted"
    /\ Len(doxyfile[1]) < Len(filedata)

\* C7: doxygen is started only after configureDoxyfile("../input", "build")
\* has returned with both file objects closed and Doxyfile holding the whole
\* rendered text; while doxygen runs the load waits at line 29; the registry
\* is non-empty only once doxygen has terminated.
C7_FixedOrder ==
    /\ doxygen # "not_started" =>
          /\ input_dir = InputLiteral
          /\ output_dir = OutputLiteral
          /\ calls = 1
          /\ template_fh = "closed"
          /\ output_fh = "closed"
          /\ output_buf = <<>>
          /\ template # <<>>
          /\ doxyfile = << Rendered(template[1], InputLiteral, OutputLiteral) >>
    /\ doxygen = "running" => pc = "L29_wait"
    /\ breathe_projects # EmptyDict => doxygen = "terminated"

\* C7 witness: doxygen is running and the load is waiting for it.
C7_Witness ==
    /\ doxygen = "running"
    /\ pc = "L29_wait"
    /\ breathe_projects = EmptyDict

\* C9: no step of the load changes Doxyfile.in.
C9_TemplateNeverChanges == [][template' = template]_vars

\* C9 witness: a load that read a template holding both tokens has finished.
C9_Witness ==
    /\ pc = "done"
    /\ calls = 1
    /\ template_fh = "closed"
    /\ template = << TokIn \o TokOut >>

\* C10: after a load that ran to the end, breathe_default_project is a key of
\* breathe_projects exactly when READTHEDOCS was "True".
C10_DefaultProjectRegistered ==
    pc = "done" =>
        /\ settings.breathe_default_project = "krowkee"
        /\ (settings.breathe_default_project \in DOMAIN breathe_projects) <=> FlagIsTrue

\* C10 witness: a load with the flag unset ended with a default project that
\* the registry does not hold.
C10_Witness ==
    /\ pc = "done"
    /\ environ = EmptyDict
    /\ settings.breathe_default_project \notin DOMAIN breathe_projects

\* ------------------------------- properties of configureDoxyfile alone
\* The positions at which tok occurs in s (occurrences may overlap).
Occurrences(s, tok) ==
    { p \in 1..(Len(s) - Len(tok) + 1) : SubSeq(s, p, p + Len(tok) - 1) = tok }

\* s holds no "@".
NoAt(s) == \A p \in 1..Len(s) : s[p] # "@"

\* The token occurrences of s, each as <<first position, last position>>.
TokenSpans(s) ==
    { <<p, p + Len(TokIn) - 1>> : p \in Occurrences(s, TokIn) } \cup
    { <<p, p + Len(TokOut) - 1>> : p \in Occurrences(s, TokOut) }

\* No two token occurrences of s overlap, and every "@" of s is the first or
\* the last character of a token occurrence.
TokensApart(s) ==
    /\ \A x, y \in TokenSpans(s) : x # y => (x[2] < y[1] \/ y[2] < x[1])
    /\ \A p \in 1..Len(s) :
          s[p] = "@" => \E x \in TokenSpans(s) : p = x[1] \/ p = x[2]

\* t with the one occurrence of each token cut out and i, o put in its place.
Placed(t, i, o) ==
    LET a == CHOOSE p \in Occurrences(t, TokIn) : TRUE
        b == CHOOSE p \in Occurrences(t, TokOut) : TRUE
    IN  IF a < b
        THEN SubSeq(t, 1, a - 1) \o i \o SubSeq(t, a + Len(TokIn), b - 1)
                 \o o \o SubSeq(t, b + Len(TokOut), Len(t))
        ELSE SubSeq(t, 1, b - 1) \o o \o SubSeq(t, b + Len(TokOut), a - 1)
                 \o i \o SubSeq(t, a + Len(TokIn), Len(t))

\* t read once from left to right, each token found replaced by its value and
\* every other character copied; inserted text is never read again.
RECURSIVE OnePass(_, _, _)
OnePass(t, i, o) ==
    IF t = <<>> THEN <<>>
    ELSE IF Len(t) >= Len(TokIn) /\ SubSeq(t, 1, Len(TokIn)) = TokIn
         THEN i \o OnePass(SubSeq(t, Len(TokIn) + 1, Len(t)), i, o)
    ELSE IF Len(t) >= Len(TokOut) /\ SubSeq(t, 1, Len(TokOut)) = TokOut
         THEN o \o OnePass(SubSeq(t, Len(TokOut) + 1, Len(t)), i, o)
    ELSE <<Head(t)>> \o OnePass(Tail(t), i, o)

\* A call of configureDoxyfile has returned to its caller.
Returned == pc = "caller" /\ calls >= 1

\* The template holds each token exactly once.
EachTokenOnce ==
    /\ Cardinality(Occurrences(template[1], TokIn)) = 1
    /\ Cardinality(Occurrences(template[1], TokOut)) = 1

\* Doxyfile holds no token, and holds the template with the two values at the
\* places of the two tokens.
NoTokenLeftAndPlaced ==
    /\ Occurrences(doxyfile[1], TokIn) = {}
    /\ Occurrences(doxyfile[1], TokOut) = {}
    /\ doxyfile[1] = Placed(template[1], input_dir, output_dir)

\* C3 as stated: for every template holding each token exactly once and every
\* two values, the output holds no token and has the values at the places of
\* the tokens.
C3_AsStated ==
    (Returned /\ EachTokenOnce) => NoTokenLeftAndPlaced

\* C3 amended: the same, for templates whose only "@" are those of the two
\* tokens, which do not overlap, and for values that hold no "@".
C3_NoTokenLeftAndPlaced ==
    ( /\ Returned
      /\ EachTokenOnce
      /\ TokensApart(template[1])
      /\ NoAt(input_dir)
      /\ NoAt(output_dir) ) => NoTokenLeftAndPlaced

\* C3 witness: a template with text, the input token and the output token was
\* rendered with the values "" and "build".
C3_Witness ==
    /\ Returned
    /\ template = << TokIn \o <<"=">> \o TokOut >>
    /\ input_dir = <<>>
    /\ output_dir = OutputLiteral
    /\ doxyfile = << <<"=">> \o OutputLiteral >>

C8_FullOverwrite ==
    Returned =>
        /\ doxyfile = << Rendered(template[1], input_dir, output_dir) >>
        /\ output_fh = "closed"
        /\ output_buf = <<>>

\* C8 witness: the second call has returned, and Doxyfile, which was longer
\* than the rendered text before the first call, holds text.
C8_Witness ==
    /\ Returned
    /\ calls = 2
    /\ doxyfile0 # <<>>
    /\ doxyfile # << <<>> >>
    /\ Len(doxyfile0[1]) > Len(doxyfile[1])

====
